---- MODULE Spec2Model ----
(***************************************************************************)
(* Model of scripts/convert_xml_doc_to_styled_html.py: one run of main(),  *)
(* which converts an XML documentation file into a styled HTML page.       *)
(*                                                                         *)
(* A Python str is a sequence of tokens.  A token is one character of the  *)
(* data alphabet, or a run of characters none of which is special to       *)
(* html.escape or str.strip (template markup such as "</p>" is the one     *)
(* exception: it is copied verbatim from the source and kept as one token).*)
(* An optional value (None or a value) is a sequence of length 0 or 1.     *)
(*                                                                         *)
(* Python evaluates an argument once, before the call.  The recursive      *)
(* operators do the same: "CHOOSE r \in {e(v) : v \in {x}} : TRUE" is e     *)
(* applied to the value v of the argument x.                               *)
(***************************************************************************)
EXTENDS Integers, Sequences, FiniteSets, TLC

VARIABLES
    input,          \* what the input path refers to on disk
    outFile,        \* the output path on disk: Nothing, or Some(content)
    pc,             \* position of the run inside main / convert_xml_to_html
    root,           \* local root of convert_xml_to_html: Nothing or Some(tree)
    html_content,   \* local html_content of convert_xml_to_html
    stdout,         \* the lines printed so far
    exc,            \* the exception raised out of convert_xml_to_html, if any
    out0,           \* history: outFile when the run started
    writes          \* history: number of times the output file was opened for writing

vars == <<input, outFile, pc, root, html_content, stdout, exc, out0, writes>>

---------------------------------------------------------------------------
(* Bounds of the model *)

MaxNodes == 4
MaxNameLen == 1
MaxTextLen == 2

---------------------------------------------------------------------------
(* Optional values *)

Nothing == <<>>
Some(v) == <<v>>

---------------------------------------------------------------------------
(* Strings *)

RECURSIVE Replace(_, _, _)
\* str.replace(old, new) for a one-character old
Replace(s, old, new) ==
    CHOOSE r \in {
        IF v = <<>> THEN <<>>
        ELSE (IF Head(v) = old THEN new ELSE <<Head(v)>>) \o Replace(Tail(v), old, new)
        : v \in {s}} : TRUE

\* html.escape(s) with quote=True: "&" first, then "<", ">", '"', "'"
html_escape(s) ==
    LET s1 == Replace(s, "&", <<"&", "amp;">>)
        s2 == Replace(s1, "<", <<"&", "lt;">>)
        s3 == Replace(s2, ">", <<"&", "gt;">>)
        s4 == Replace(s3, "\"", <<"&", "quot;">>)
    IN  Replace(s4, "'", <<"&", "#x27;">>)

Whitespace == {" ", "\n", "\t"}

RECURSIVE lstrip(_)
lstrip(s) ==
    CHOOSE r \in {
        IF v # <<>> /\ Head(v) \in Whitespace THEN lstrip(Tail(v)) ELSE v
        : v \in {s}} : TRUE

RECURSIVE rstrip(_)
rstrip(s) ==
    CHOOSE r \in {
        IF v # <<>> /\ v[Len(v)] \in Whitespace THEN rstrip(SubSeq(v, 1, Len(v) - 1)) ELSE v
        : v \in {s}} : TRUE

\* str.strip()
strip(s) == rstrip(lstrip(s))

RECURSIVE join(_, _)
\* sep.join(parts)
join(sep, parts) ==
    CHOOSE r \in {
        IF v = <<>> THEN <<>>
        ELSE IF Len(v) = 1 THEN v[1]
        ELSE v[1] \o sep \o join(sep, Tail(v))
        : v \in {parts}} : TRUE

---------------------------------------------------------------------------
(* Element trees.  A tree is a record [n, parent, tag, name, text]: the     *)
(* elements are 1..n, 1 is the root, parent[i] < i, and the children of an  *)
(* element are ordered by their number.  name[i] is the optional "name"     *)
(* attribute and text[i] the optional text before the first child.          *)

Children(t, i) ==
    SelectSeq([k \in 1..t.n |-> k], LAMBDA j : j > 1 /\ t.parent[j] = i)

RECURSIVE iter(_, _)
RECURSIVE iterEach(_, _)
\* Element.iter(): the element, then its subtrees, in document order
iter(t, i) == <<i>> \o iterEach(t, Children(t, i))
iterEach(t, cs) ==
    CHOOSE r \in {
        IF v = <<>> THEN <<>> ELSE iter(t, Head(v)) \o iterEach(t, Tail(v))
        : v \in {cs}} : TRUE

\* root.findall("tag") in place of ".//tag": the direct children only
findall_children(t, tag) ==
    SelectSeq(Children(t, 1), LAMBDA e : t.tag[e] = tag)

\* root.findall(".//tag"): every descendant with the tag, the root itself excluded
findall_descendants(t, tag) ==
    SelectSeq(iter(t, 1), LAMBDA e : e # 1 /\ t.tag[e] = tag)

\* element.find(tag): the first direct child with the tag, or None
find(t, i, tag) ==
    LET hits == SelectSeq(Children(t, i), LAMBDA c : t.tag[c] = tag)
    IN  IF hits = <<>> THEN Nothing ELSE Some(Head(hits))

---------------------------------------------------------------------------
(* The pure functions of the script *)

\* get_css_styles(): the constant style sheet (its rules abbreviated to their selectors)
get_css_styles == <<"body h1 h2 p .member-block code .member-name .no-summary">>

\* the literal '<span class="no-summary">No summary available.</span>'
NoSummary ==
    <<"<", "span class=", "\"", "no-summary", "\"", ">",
      "No summary available.", "<", "/span", ">">>

\* attrib.get("name") or "Unknown" in place of attrib.get("name", "Unknown")
extract_member_info_or_unknown(t, member_element) ==
    LET name == IF t.name[member_element] = Nothing \/ t.name[member_element] = Some(<<>>)
                THEN <<"Unknown">>
                ELSE t.name[member_element][1]
        summary_elem == find(t, member_element, "summary")
        text == IF summary_elem = Nothing THEN Nothing ELSE t.text[summary_elem[1]]
        summary == IF summary_elem # Nothing /\ text # Nothing /\ text[1] # <<>>
                   THEN html_escape(strip(text[1]))
                   ELSE NoSummary
    IN  <<name, summary>>

\* extract_member_info(member_element): <<name, summary>>
extract_member_info(t, member_element) ==
    LET name == IF t.name[member_element] = Nothing
                THEN <<"Unknown">>
                ELSE t.name[member_element][1]
        summary_elem == find(t, member_element, "summary")
        text == IF summary_elem = Nothing THEN Nothing ELSE t.text[summary_elem[1]]
        \* "summary_elem is not None and summary_elem.text": text neither None nor ""
        summary == IF summary_elem # Nothing /\ text # Nothing /\ text[1] # <<>>
                   THEN html_escape(strip(text[1]))
                   ELSE NoSummary
    IN  <<name, summary>>

DefaultTitle == <<"NuGetInspectorApp Documentation">>

BlockOpen == <<"    <div class='member-block'>">>
BlockClose == <<"    </div>">>

\* html.escape(summary) in the paragraph, escaping the summary a second time
member_block_reescaped(t, member) ==
    LET info == extract_member_info(t, member)
    IN  << BlockOpen,
           <<"        <h2><code class='member-name'>">> \o html_escape(info[1])
                \o <<"</code></h2>">>,
           <<"        <p>">> \o html_escape(info[2]) \o <<"</p>">>,
           BlockClose >>

\* the four fragments appended for one member
member_block(t, member) ==
    LET info == extract_member_info(t, member)
    IN  << BlockOpen,
           <<"        <h2><code class='member-name'>">> \o html_escape(info[1])
                \o <<"</code></h2>">>,
           <<"        <p>">> \o info[2] \o <<"</p>">>,
           BlockClose >>

RECURSIVE member_blocks(_, _)
\* the loop "for member in members"
member_blocks(t, members) ==
    CHOOSE r \in {
        IF v = <<>> THEN <<>>
        ELSE member_block(t, Head(v)) \o member_blocks(t, Tail(v))
        : v \in {members}} : TRUE

html_head(title) ==
    << <<"<!DOCTYPE html>">>,
       <<"<html lang='en'>">>,
       <<"<head>">>,
       <<"    <meta charset='UTF-8'>">>,
       <<"    <meta name='viewport' content='width=device-width, initial-scale=1.0'>">>,
       <<"    <title>">> \o html_escape(title) \o <<"</title>">>,
       <<"    <style>">>,
       get_css_styles,
       <<"    </style>">>,
       <<"</head>">>,
       <<"<body>">>,
       <<"    <h1>">> \o html_escape(title) \o <<"</h1>">> >>

html_tail == << <<"</body>">>, <<"</html>">> >>

\* the list html_parts when generate_html_content returns
generate_html_parts(t, title) ==
    html_head(title)
        \o member_blocks(t, findall_descendants(t, "member"))
        \o html_tail

\* generate_html_content(xml_root, title)
generate_html_content(t, title) == join(<<"\n">>, generate_html_parts(t, title))

---------------------------------------------------------------------------
(* Exceptions *)

\* the classes an exception class derives from, itself included
Bases(type) ==
    CASE type = "FileNotFoundError" -> {"FileNotFoundError", "OSError", "Exception"}
      [] type = "IsADirectoryError" -> {"IsADirectoryError", "OSError", "Exception"}
      [] type = "PermissionError" -> {"PermissionError", "OSError", "Exception"}
      [] type = "OSError" -> {"OSError", "Exception"}
      [] type = "ParseError" -> {"ParseError", "SyntaxError", "Exception"}
      [] OTHER -> {type}

isinstance(e, class) == class \in Bases(e.type)

\* "except Exception" placed first, so that it shadows the two specific clauses
main_except_generic_first(e) ==
    IF isinstance(e, "Exception") THEN Some(<<"Unexpected error: ">> \o e.msg)
    ELSE IF isinstance(e, "FileNotFoundError") THEN Some(<<"Error: ">> \o e.msg)
    ELSE IF isinstance(e, "ParseError") THEN Some(<<"XML Parse Error: ">> \o e.msg)
    ELSE Nothing

\* the two specific clauses without the final "except Exception"
main_except_no_generic(e) ==
    IF isinstance(e, "FileNotFoundError") THEN Some(<<"Error: ">> \o e.msg)
    ELSE IF isinstance(e, "ParseError") THEN Some(<<"XML Parse Error: ">> \o e.msg)
    ELSE Nothing

\* the except clauses of main, in order: the line printed, or Nothing when no
\* clause matches and the exception leaves main
main_except(e) ==
    IF isinstance(e, "FileNotFoundError") THEN Some(<<"Error: ">> \o e.msg)
    ELSE IF isinstance(e, "ParseError") THEN Some(<<"XML Parse Error: ">> \o e.msg)
    ELSE IF isinstance(e, "Exception") THEN Some(<<"Unexpected error: ">> \o e.msg)
    ELSE Nothing

---------------------------------------------------------------------------
(* The file system seen by one run *)

input_path ==
    "C:\\Users\\rofli\\iCloudDrive\\Source\\NuGetInspectorApp\\NuGetInspectorApp\\bin\\Debug\\net9.0\\NuGetInspectorApp.xml"
output_path == "NuGetInspectorApp_Doc_Styled.html"

\* Path.exists(): true of anything at the path, a directory included
exists(inp) == inp.kind # "absent"

\* a recovering parser: malformed content gives a tree of the root alone
ET_parse_lenient(inp) ==
    CASE inp.kind = "absent" ->
            {[ok |-> FALSE, exc |-> [type |-> "FileNotFoundError",
                                     msg |-> <<"[Errno 2] No such file or directory">>]]}
      [] inp.kind = "directory" ->
            {[ok |-> FALSE, exc |-> [type |-> "IsADirectoryError",
                                     msg |-> <<"[Errno 21] Is a directory">>]]}
      [] inp.kind = "malformed" ->
            {[ok |-> TRUE, tree |-> [n |-> 1, parent |-> <<0>>, tag |-> <<"doc">>,
                                     name |-> <<Nothing>>, text |-> <<Nothing>>]]}
      [] OTHER -> {[ok |-> TRUE, tree |-> inp.tree]}

\* ET.parse(input_file): the results it can have, each a tree or an exception
ET_parse(inp) ==
    CASE inp.kind = "absent" ->
            {[ok |-> FALSE, exc |-> [type |-> "FileNotFoundError",
                                     msg |-> <<"[Errno 2] No such file or directory">>]]}
      [] inp.kind = "directory" ->
            {[ok |-> FALSE, exc |-> [type |-> "IsADirectoryError",
                                     msg |-> <<"[Errno 21] Is a directory">>]],
             [ok |-> FALSE, exc |-> [type |-> "PermissionError",
                                     msg |-> <<"[Errno 13] Permission denied">>]]}
      [] inp.kind = "malformed" ->
            {[ok |-> FALSE, exc |-> [type |-> "ParseError",
                                     msg |-> <<"not well-formed (invalid token)">>]]}
      [] OTHER -> {[ok |-> TRUE, tree |-> inp.tree]}

\* output_file.write_text(content): the file opens and takes the whole text, or
\* the open is refused and the file stays as it was, or the open truncates or
\* creates the file and the write then fails part-way
write_text(old, content) ==
    {[file |-> Some(content), opened |-> 1, ok |-> TRUE]}
    \cup {[file |-> old, opened |-> 0, ok |-> FALSE,
           exc |-> [type |-> "PermissionError", msg |-> <<"[Errno 13] Permission denied">>]]}
    \cup {[file |-> Some(SubSeq(content, 1, k)), opened |-> 1, ok |-> FALSE,
           exc |-> [type |-> "OSError", msg |-> <<"[Errno 28] No space left on device">>]]
          : k \in {0, Len(content) \div 2}}

---------------------------------------------------------------------------
(* Inputs *)

Tags == {"member", "summary", "doc"}

Parents(n) ==
    {p \in [1..n -> 0..(n - 1)] : p[1] = 0 /\ \A i \in 2..n : p[i] \in 1..(i - 1)}

\* documents of every shape with up to MaxNodes elements; each member carries
\* a name of its own and each summary a text of its own
ShapeDocs ==
    UNION {
        {[n |-> n, parent |-> p, tag |-> g,
          name |-> [i \in 1..n |-> IF g[i] = "member"
                                   THEN Some(<<"M:", ToString(i)>>) ELSE Nothing],
          text |-> [i \in 1..n |-> IF g[i] = "summary"
                                   THEN Some(<<"Summary ", ToString(i)>>) ELSE Nothing]]
         : p \in Parents(n), g \in [1..n -> Tags]}
        : n \in 1..MaxNodes}

Strings(alphabet, k) == UNION {[1..m -> alphabet] : m \in 0..k}

NameChars == {"N", "<", "&", "'"}
TextChars == {"a", " ", "&", "<", ">", "\"", "'", "lt;"}

Names == {Nothing} \cup {Some(s) : s \in Strings(NameChars, MaxNameLen)}
Texts == {Nothing} \cup {Some(s) : s \in Strings(TextChars, MaxTextLen)}

\* documents <doc><member name=...>[<summary>...</summary> | <remarks>...</remarks>]</member></doc>
TextDocs ==
    {[n |-> 2, parent |-> <<0, 1>>, tag |-> <<"doc", "member">>,
      name |-> <<Nothing, nm>>, text |-> <<Nothing, Nothing>>] : nm \in Names}
    \cup
    {[n |-> 3, parent |-> <<0, 1, 2>>, tag |-> <<"doc", "member", g>>,
      name |-> <<Nothing, nm, Nothing>>, text |-> <<Nothing, Nothing, tx>>]
     : nm \in Names, g \in {"summary", "remarks"}, tx \in Texts}

Inputs(docs) ==
    {[kind |-> "absent"], [kind |-> "directory"], [kind |-> "malformed"]}
    \cup {[kind |-> "xml", tree |-> t] : t \in docs}

OutFiles == {Nothing, Some(<<"an earlier page">>)}

---------------------------------------------------------------------------
(* One run of main *)

InitWith(docs) ==
    /\ input \in Inputs(docs)
    /\ outFile \in OutFiles
    /\ out0 = outFile
    /\ pc = "exists"
    /\ root = Nothing
    /\ html_content = Nothing
    /\ stdout = <<>>
    /\ exc = Nothing
    /\ writes = 0

Init == InitWith(ShapeDocs)

InitText == InitWith(TextDocs)

\* "if not input_file.exists(): raise FileNotFoundError(...)"
CheckExists ==
    /\ pc = "exists"
    /\ IF ~exists(input)
       THEN /\ exc' = Some([type |-> "FileNotFoundError",
                            msg |-> <<"Input file not found: ", input_path>>])
            /\ pc' = "except"
       ELSE /\ pc' = "parse"
            /\ UNCHANGED exc
    /\ UNCHANGED <<input, outFile, root, html_content, stdout, out0, writes>>

\* "tree = ET.parse(input_file); root = tree.getroot()"
Parse ==
    /\ pc = "parse"
    /\ \E r \in ET_parse(input) :
          IF r.ok
          THEN /\ root' = Some(r.tree)
               /\ pc' = "render"
               /\ UNCHANGED exc
          ELSE /\ exc' = Some(r.exc)
               /\ pc' = "except"
               /\ UNCHANGED root
    /\ UNCHANGED <<input, outFile, html_content, stdout, out0, writes>>

\* "html_content = generate_html_content(root)"
Render ==
    /\ pc = "render"
    /\ html_content' = Some(generate_html_content(root[1], DefaultTitle))
    /\ pc' = "write"
    /\ UNCHANGED <<input, outFile, root, stdout, exc, out0, writes>>

\* the write wrapped in a try/except of its own that swallows the failure
WriteText_swallowed ==
    /\ pc = "write"
    /\ \E w \in write_text(outFile, html_content[1]) :
          /\ outFile' = w.file
          /\ writes' = writes + w.opened
          /\ pc' = "print1"
          /\ UNCHANGED exc
    /\ UNCHANGED <<input, root, html_content, stdout, out0>>

\* "output_file.write_text(html_content, encoding='utf-8')"
WriteText ==
    /\ pc = "write"
    /\ \E w \in write_text(outFile, html_content[1]) :
          /\ outFile' = w.file
          /\ writes' = writes + w.opened
          /\ IF w.ok
             THEN pc' = "print1" /\ UNCHANGED exc
             ELSE pc' = "except" /\ exc' = Some(w.exc)
    /\ UNCHANGED <<input, root, html_content, stdout, out0>>

\* print(f"... Styled documentation written to {output_file}")
PrintWritten ==
    /\ pc = "print1"
    /\ stdout' = Append(stdout, <<"Styled documentation written to ", output_path>>)
    /\ pc' = "print2"
    /\ UNCHANGED <<input, outFile, root, html_content, exc, out0, writes>>

\* the count taken with root.findall('member'): the direct children only
PrintProcessed_children ==
    /\ pc = "print2"
    /\ stdout' = Append(stdout,
            <<"Processed ", ToString(Len(findall_children(root[1], "member"))),
              " documentation members">>)
    /\ pc' = "done"
    /\ UNCHANGED <<input, outFile, root, html_content, exc, out0, writes>>

\* print(f"... Processed {len(root.findall('.//member'))} documentation members")
PrintProcessed ==
    /\ pc = "print2"
    /\ stdout' = Append(stdout,
            <<"Processed ", ToString(Len(findall_descendants(root[1], "member"))),
              " documentation members">>)
    /\ pc' = "done"
    /\ UNCHANGED <<input, outFile, root, html_content, exc, out0, writes>>

\* the except clauses of main
Except ==
    /\ pc = "except"
    /\ LET line == main_except(exc[1])
       IN  IF line = Nothing
           THEN pc' = "propagated" /\ UNCHANGED stdout
           ELSE pc' = "done" /\ stdout' = Append(stdout, line[1])
    /\ UNCHANGED <<input, outFile, root, html_content, exc, out0, writes>>

Next ==
    \/ CheckExists
    \/ Parse
    \/ Render
    \/ WriteText
    \/ PrintWritten
    \/ PrintProcessed
    \/ Except

Spec == Init /\ [][Next]_vars

SpecText == InitText /\ [][Next]_vars

\* the interpreter runs the statements of the one thread one after the other
FairSpec == Init /\ [][Next]_vars /\ WF_vars(Next)

---------------------------------------------------------------------------
(* Vocabulary of the properties, stated independently of the functions above *)

\* the entity that stands for a character in HTML text
Entity(c) ==
    CASE c = "&" -> <<"&", "amp;">>
      [] c = "<" -> <<"&", "lt;">>
      [] c = ">" -> <<"&", "gt;">>
      [] c = "\"" -> <<"&", "quot;">>
      [] c = "'" -> <<"&", "#x27;">>
      [] OTHER -> <<c>>

RECURSIVE Escaped(_)
\* a text with every character replaced by its entity, in one pass
Escaped(s) == IF s = <<>> THEN <<>> ELSE Entity(Head(s)) \o Escaped(Tail(s))

EntityNames == {"amp;", "lt;", "gt;", "quot;", "#x27;"}

Decoded(name) ==
    CASE name = "amp;" -> "&"
      [] name = "lt;" -> "<"
      [] name = "gt;" -> ">"
      [] name = "quot;" -> "\""
      [] OTHER -> "'"

RECURSIVE Unescaped(_)
\* the text an HTML parser reads back from markup: entities decoded, left to right
Unescaped(s) ==
    IF s = <<>> THEN <<>>
    ELSE IF Head(s) = "&" /\ Len(s) >= 2 /\ s[2] \in EntityNames
         THEN <<Decoded(s[2])>> \o Unescaped(SubSeq(s, 3, Len(s)))
         ELSE <<Head(s)>> \o Unescaped(Tail(s))

\* no character of the markup is special: every "&" starts an entity and no
\* "<", ">" or quote occurs
NoRawSpecial(s) ==
    \A i \in 1..Len(s) :
        /\ s[i] \notin {"<", ">", "\"", "'"}
        /\ s[i] = "&" => (i < Len(s) /\ s[i + 1] \in EntityNames)

\* a text without its leading and trailing whitespace
Trimmed(s) ==
    LET keep == {i \in 1..Len(s) : s[i] \notin Whitespace}
    IN  IF keep = {} THEN <<>>
        ELSE SubSeq(s, CHOOSE i \in keep : \A j \in keep : i <= j,
                       CHOOSE i \in keep : \A j \in keep : i >= j)

RECURSIVE SplitLines(_)
\* the lines of a text
SplitLines(s) ==
    IF \A i \in 1..Len(s) : s[i] # "\n" THEN <<s>>
    ELSE LET k == CHOOSE i \in 1..Len(s) : s[i] = "\n" /\ \A j \in 1..(i - 1) : s[j] # "\n"
         IN  <<SubSeq(s, 1, k - 1)>> \o SplitLines(SubSeq(s, k + 1, Len(s)))

\* the line numbers at which a member block opens, in order
BlockStarts(lines) ==
    SelectSeq([i \in 1..Len(lines) |-> i], LAMBDA i : lines[i] = BlockOpen)

HeadingLine(text) == <<"        <h2><code class='member-name'>">> \o text \o <<"</code></h2>">>
ParagraphLine(markup) == <<"        <p>">> \o markup \o <<"</p>">>
TitleLine == <<"    <h1>", "NuGetInspectorApp Documentation", "</h1>">>

RECURSIVE IsAncestor(_, _, _)
IsAncestor(t, a, b) ==
    b # 1 /\ (t.parent[b] = a \/ IsAncestor(t, a, t.parent[b]))

SelfAndAncestors(t, i) == {i} \cup {a \in 1..t.n : IsAncestor(t, a, i)}

\* a comes before b in document order: a contains b, or the two lie in
\* different subtrees of a common ancestor and a's subtree comes first
DocBefore(t, a, b) ==
    /\ a # b
    /\ \/ IsAncestor(t, a, b)
       \/ \E x \in SelfAndAncestors(t, a), y \in SelfAndAncestors(t, b) :
             x # 1 /\ y # 1 /\ x < y /\ t.parent[x] = t.parent[y]

\* the member nodes under the root
MemberNodes(t) == {i \in 2..t.n : t.tag[i] = "member"}

\* the position of a member node among the member nodes, in document order
Rank(t, m) == 1 + Cardinality({x \in MemberNodes(t) : DocBefore(t, x, m)})

Rendered == html_content # Nothing
OutLines == SplitLines(html_content[1])

\* the heading text a member node is to get
HeadingOf(t, m) == IF t.name[m] = Nothing THEN <<"Unknown">> ELSE Escaped(t.name[m][1])

---------------------------------------------------------------------------
(* C1: every member node under the root, at any depth, gets exactly one     *)
(* member block, and the k-th block is the one of the k-th member node in   *)
(* document order; the title heading is there even without any member.      *)
C1_BlocksFollowDocumentOrder ==
    Rendered =>
        LET t == root[1]
            lines == OutLines
            starts == BlockStarts(lines)
        IN  /\ Len(starts) = Cardinality(MemberNodes(t))
            /\ Len(lines) = 14 + 4 * Cardinality(MemberNodes(t))
            /\ TitleLine \in {lines[i] : i \in 1..Len(lines)}
            /\ \A m \in MemberNodes(t) :
                  LET i == starts[Rank(t, m)]
                  IN  /\ lines[i + 1] = HeadingLine(HeadingOf(t, m))
                      /\ lines[i + 3] = BlockClose

\* a member nested in a member, with document order differing from the
\* numbering of the nodes
C1_Witness ==
    /\ pc = "done"
    /\ exc = Nothing
    /\ \E a, b \in MemberNodes(root[1]) :
          /\ a < b
          /\ DocBefore(root[1], b, a)
          /\ root[1].parent[b] \in MemberNodes(root[1])

---------------------------------------------------------------------------
(* Vocabulary of the run *)

WrittenLine == <<"Styled documentation written to ", output_path>>
ProcessedLine(n) == <<"Processed ", ToString(n), " documentation members">>
SuccessLines == {WrittenLine} \cup {ProcessedLine(n) : n \in 0..MaxNodes}
Printed == {stdout[i] : i \in 1..Len(stdout)}

\* the prefix of the line main prints for an exception of a class
Category(type) ==
    CASE type = "FileNotFoundError" -> "Error: "
      [] type = "ParseError" -> "XML Parse Error: "
      [] OTHER -> "Unexpected error: "

\* the number of member blocks in a text
Blocks(text) == Cardinality({i \in 1..Len(text) : text[i] = BlockOpen[1]})

---------------------------------------------------------------------------
(* C2: on an input path that does not exist the run reports a NotFound      *)
(* message and the output file is, in every state of the run, what it was   *)
(* before the run.                                                          *)
C2_AbsentInputLeavesOutput ==
    input.kind = "absent" =>
        /\ outFile = out0
        /\ writes = 0
        /\ pc = "done" =>
              /\ Len(stdout) = 1
              /\ stdout[1][1] = "Error: "

C2_Witness ==
    /\ input.kind = "absent"
    /\ pc = "done"
    /\ out0 # Nothing
    /\ stdout = << <<"Error: ", "Input file not found: ", input_path>> >>

(* C3: on an existing file that is not well-formed the run reports a Parse  *)
(* message, never reaches the write step and leaves the output file as it   *)
(* was.                                                                     *)
C3_MalformedInputLeavesOutput ==
    input.kind = "malformed" =>
        /\ outFile = out0
        /\ writes = 0
        /\ pc \notin {"render", "write", "print1", "print2"}
        /\ pc = "done" =>
              /\ Len(stdout) = 1
              /\ stdout[1][1] = "XML Parse Error: "

C3_Witness ==
    /\ input.kind = "malformed"
    /\ pc = "done"
    /\ out0 # Nothing
    /\ outFile = out0
    /\ Len(stdout) = 1

(* C6: no exception leaves main and every run goes on until main returns;   *)
(* a failed run has printed exactly one line, of the category of its        *)
(* exception, and a successful run exactly the two success lines.           *)
C6_MainAlwaysReturns ==
    /\ [](pc # "propagated")
    /\ <>(pc = "done")
    /\ [](pc = "done" =>
            IF exc = Nothing
            THEN /\ Len(stdout) = 2
                 /\ stdout[1] = WrittenLine
                 /\ stdout[2] \in {ProcessedLine(n) : n \in 0..MaxNodes}
            ELSE stdout = << <<Category(exc[1].type)>> \o exc[1].msg >>)

C6_Witness ==
    /\ pc = "done"
    /\ exc # Nothing
    /\ exc[1].type = "OSError"
    /\ stdout = << <<"Unexpected error: ", "[Errno 28] No space left on device">> >>

(* C8: on a successful conversion the count printed is the number of member *)
(* blocks in the output file.                                               *)
C8_CountMatchesBlocks ==
    (pc = "done" /\ exc = Nothing) =>
        /\ outFile # Nothing
        /\ stdout[2] = ProcessedLine(Blocks(outFile[1]))

\* a conversion with a member below a direct child of the root
C8_Witness ==
    /\ pc = "done"
    /\ exc = Nothing
    /\ Blocks(outFile[1]) >= 2
    /\ \E m \in MemberNodes(root[1]) : root[1].parent[m] # 1

C7_NotAFileIsNotFound ==
    input.kind \in {"absent", "directory"} =>
        /\ pc # "parse"
        /\ exc # Nothing => exc[1].type = "FileNotFoundError"
        /\ pc = "done" => stdout[1][1] = "Error: "

---------------------------------------------------------------------------
(* Vocabulary of the member blocks *)

\* the text of the first summary child of a member node, or Nothing when the
\* node has no summary child or the summary has no text
SummaryText(t, m) ==
    LET S == {c \in 2..t.n : t.parent[c] = m /\ t.tag[c] = "summary"}
    IN  IF S = {} THEN Nothing ELSE t.text[CHOOSE c \in S : \A d \in S : c <= d]

\* the lines of the block of a member node
BlockOf(t, m) ==
    LET i == BlockStarts(OutLines)[Rank(t, m)] IN SubSeq(OutLines, i, i + 3)

\* the markup between "<p>" and "</p>" in the block of a member node
BodyOf(t, m) == SubSeq(BlockOf(t, m)[3], 2, Len(BlockOf(t, m)[3]) - 1)

(* C4: the summary of a member is the escaped trimmed text exactly when a   *)
(* summary child exists whose text is not empty after trimming; in every    *)
(* other case, a summary of whitespace alone included, it is the            *)
(* "No summary available." placeholder.                                     *)
C4_PlaceholderUnlessTrimmedText ==
    Rendered =>
        \A m \in MemberNodes(root[1]) :
            LET text == SummaryText(root[1], m)
            IN  BlockOf(root[1], m)[3] =
                    ParagraphLine(IF text # Nothing /\ Trimmed(text[1]) # <<>>
                                  THEN Escaped(Trimmed(text[1]))
                                  ELSE NoSummary)

(* C5: the paragraph of a block holds either the placeholder, verbatim, or  *)
(* the summary text escaped exactly once: no special character is left raw  *)
(* and decoding the entities once gives back the trimmed source text.  A    *)
(* member without summary text gets the placeholder, and a summary whose    *)
(* trimmed text is not empty gets the escaped text.                         *)
C5_EscapedExactlyOnce ==
    Rendered =>
        \A m \in MemberNodes(root[1]) :
            LET text == SummaryText(root[1], m)
                line == BlockOf(root[1], m)[3]
                body == BodyOf(root[1], m)
            IN  /\ line = ParagraphLine(body)
                /\ text = Nothing => body = NoSummary
                /\ text # Nothing =>
                      \/ body = NoSummary /\ Trimmed(text[1]) = <<>>
                      \/ NoRawSpecial(body) /\ Unescaped(body) = Trimmed(text[1])

\* a summary whose text already looks like an entity
C5_Witness ==
    /\ pc = "done"
    /\ exc = Nothing
    /\ SummaryText(root[1], 2) = Some(<<"&", "lt;">>)
    /\ BodyOf(root[1], 2) = <<"&", "amp;", "lt;">>

(* C9: the heading of a block is the escaped name attribute when the        *)
(* attribute is present, the empty string included, and "Unknown" only when *)
(* it is absent; a run that parsed its input fails at the write or not at   *)
(* all.                                                                     *)
C9_HeadingIsEscapedName ==
    /\ Rendered =>
          \A m \in MemberNodes(root[1]) :
              BlockOf(root[1], m)[2] =
                  HeadingLine(IF root[1].name[m] = Nothing
                              THEN <<"Unknown">>
                              ELSE Escaped(root[1].name[m][1]))
    /\ (root # Nothing /\ exc # Nothing) =>
          (Rendered /\ exc[1].type \in {"PermissionError", "OSError"})

\* a member whose name attribute is the empty string
C9_Witness ==
    /\ pc = "done"
    /\ exc = Nothing
    /\ root[1].name[2] = Some(<<>>)
    /\ BlockOf(root[1], 2)[2] = HeadingLine(<<>>)

====
